---- MODULE Spec2Model ----
\* A model of models/wavenet.py: the WaveNet vocoder driver (construction,
\* loss / train_step / validation_losses, and the incremental generate loop
\* with its per-block input buffers).
\*
\* Amplitudes in [-1, 1] are kept as integers in half units (-2 .. 2 stands for
\* -1, -1/2, 0, 1/2, 1).  Tensors keep one batch position: the positions of a
\* batch run in lock-step and never read each other's values.
EXTENDS Integers, Sequences, FiniteSets, TLC

VARIABLES
    phase,                \* "new" | "ready" | "config_error": WaveNet.__init__
    input_type,           \* config.model.input_type
    output_distribution,  \* config.model.output_distribution
    upsample_scales,      \* product of config.model.upsample_params.upsample_scales
    scalar_input,         \* self.scalar_input
    criterion,            \* self.criterion
    params,               \* the parameters of self.model
    grads,                \* the .grad buffers of the parameters
    opt_state,            \* Adam's step count
    mode,                 \* self.model.training: "train" | "eval"
    buffers,              \* the input_buffer of every block of self.model.module
    threads,              \* the caller threads that use this instance
    call                  \* per thread: the frame of the call it is running

vars == <<phase, input_type, output_distribution, upsample_scales, scalar_input,
          criterion, params, grads, opt_state, mode, buffers, threads, call>>

config == <<input_type, output_distribution, upsample_scales>>

\* ---------------------------------------------------------------- bounds
\* Longest low-resolution conditioning sequence handed to generate.
MaxL == 2
\* Longest waveform window handed to loss.
MaxWin == 3
\* Optimizer steps after which no further train_step is started.
MaxOptSteps == 2

\* ------------------------------------------------------ configuration
\* ModelConfig.quantize_channels, as configured for the model.
quantize_channels == 3
\* ModelConfig.kernel_size.
kernel_size == 2
\* ModelConfig.layers, all in one stack (ModelConfig.stacks = 1).
layers == 2
\* generate's "first second" during training: seq_len = 22050.  The model
\* keeps the constant's role (a step count that does not depend on the
\* conditioning) at a size the conditioning lengths straddle.
TrainSeqLen == 2

\* "other" stands for every string outside the supported ones.
InputTypes == {"raw", "mulaw", "mulaw-quantize", "other"}
SupportedInputTypes == {"raw", "mulaw", "mulaw-quantize"}
OutputDistributions == {"Logistic", "Normal", "other"}
SupportedDistributions == {"Logistic", "Normal"}
UpsampleFactors == {1, 2}

Amplitudes == -2 .. 2
Frames == {0, 1}
Draws == {0, 1}
Blocks == 1 .. layers

\* ------------------------------------------------------ small helpers
Max(a, b) == IF a > b THEN a ELSE b
Min(a, b) == IF a < b THEN a ELSE b
Clamp(v) == Max(-2, Min(2, v))
Abs(v) == IF v < 0 THEN -v ELSE v

RECURSIVE SumSeq(_)
SumSeq(s) == IF s = <<>> THEN 0 ELSE Head(s) + SumSeq(Tail(s))

SeqsUpTo(S, lo, hi) == UNION {[1 .. n -> S] : n \in lo .. hi}

\* Conditioning sequences of at most maxLen frames, and waveform windows.
Conds(maxLen) == SeqsUpTo(Frames, 1, maxLen)
Windows(amps, maxLen) == SeqsUpTo(amps, 2, maxLen)

\* -------------------------------------------- wavenet_vocoder.util
\* is_mulaw_quantize(s) and is_scalar_input(s) as predicates on the string.
is_mulaw_quantize(s) == s = "mulaw-quantize"
is_scalar_input(s) == s \in {"raw", "mulaw"}

\* ------------------------------------------------------- construction
\* SelectCriterion with the final else falling back to a default criterion.
SelectCriterionDefault(it, od) ==
    IF is_mulaw_quantize(it) THEN "CrossEntropyLoss"
    ELSE IF od = "Logistic" THEN "DiscretizedMixturelogisticLoss"
    ELSE "MixtureGaussianLoss"

\* The criterion __init__ picks, or "RuntimeError" when it raises.
SelectCriterion(it, od) ==
    IF is_mulaw_quantize(it) THEN "CrossEntropyLoss"
    ELSE IF od = "Logistic" THEN "DiscretizedMixturelogisticLoss"
    ELSE IF od = "Normal" THEN "MixtureGaussianLoss"
    ELSE "RuntimeError"

EmptyDict == [k \in {} |-> 0]

IdleFrame ==
    [pc |-> "idle", op |-> "none", err |-> "none",
     spectrograms |-> <<>>, training |-> FALSE, seq_len |-> 0, t |-> 0,
     x |-> 0, fed |-> <<>>, output |-> <<>>, draws |-> <<>>,
     raw |-> <<>>, waveforms |-> <<>>, scored |-> <<>>, loss |-> 0,
     forwarded |-> FALSE, trace |-> <<>>, params0 |-> 0, opt0 |-> 0,
     dirty |-> FALSE, ret |-> <<>>]

EmptyBuffers == [b \in Blocks |-> <<>>]

InitWith(ths) ==
    /\ phase = "new"
    /\ input_type \in InputTypes
    /\ output_distribution \in OutputDistributions
    /\ upsample_scales \in UpsampleFactors
    /\ scalar_input = FALSE
    /\ criterion = "none"
    /\ params = 0
    /\ grads = <<>>
    /\ opt_state = 0
    /\ mode = "train"
    /\ buffers = EmptyBuffers
    /\ threads = ths
    /\ call = [c \in ths |-> IdleFrame]

Init == InitWith({1})

\* WaveNet.__init__ returning normally: the fields it sets.
ConstructOk ==
    /\ phase = "new"
    /\ SelectCriterion(input_type, output_distribution) # "RuntimeError"
    /\ phase' = "ready"
    /\ scalar_input' = is_scalar_input(input_type)
    /\ criterion' = SelectCriterion(input_type, output_distribution)
    /\ UNCHANGED <<config, params, grads, opt_state, mode, buffers, threads, call>>

\* WaveNet.__init__ raising "Not supported output distribution type".
ConstructRaise ==
    /\ phase = "new"
    /\ SelectCriterion(input_type, output_distribution) = "RuntimeError"
    /\ phase' = "config_error"
    /\ scalar_input' = is_scalar_input(input_type)
    /\ UNCHANGED <<config, criterion, params, grads, opt_state, mode, buffers,
                   threads, call>>

\* The helpers of wavenet_vocoder.util may assert that the string is one of
\* the three supported ones; where they do (and assertions are enabled),
\* __init__ ends at its first use of them.
ConstructAssert ==
    /\ phase = "new"
    /\ input_type \notin SupportedInputTypes
    /\ phase' = "config_error"
    /\ UNCHANGED <<config, scalar_input, criterion, params, grads, opt_state,
                   mode, buffers, threads, call>>

\* ------------------------------------------- label transforms (encode/decode)
\* torchaudio MuLawEncoding(quantize_channels): amplitude -> label 0 .. Q-1,
\* floor((sign(x) ln(1 + mu |x|) / ln(1 + mu) + 1) / 2 * mu + 0.5), mu = Q - 1,
\* tabulated for the half-unit amplitudes.
compand(a) ==
    CASE a = -2 -> 0
      [] a = -1 -> 0
      [] a = 0 -> 1
      [] a = 1 -> 2
      [] a = 2 -> 2

\* torchaudio MuLawDecoding(quantize_channels): label -> amplitude,
\* sign(y) ((1 + mu)^|y| - 1) / mu with y = 2 l / mu - 1.
expand(l) ==
    CASE l = 0 -> -2
      [] l = 1 -> 0
      [] l = 2 -> 2

\* label_2_float: 2 * x / (n_classes - 1.0) - 1.0, in half units.
label_2_float(x, n_classes) == (4 * x) \div (n_classes - 1) - 2

\* float_2_label followed by .long(): (x + 1.0) * (n_classes - 1) / 2.
float_2_label(x, n_classes) == ((x + 2) * (n_classes - 1)) \div 4

\* F.one_hot(label, quantize_channels).
one_hot(l) == [i \in 1 .. quantize_channels |-> IF i = l + 1 THEN 1 ELSE 0]

\* torch.argmax over the channel axis: the first index holding the maximum.
argmax(v) ==
    CHOOSE k \in 0 .. Len(v) - 1 :
        /\ \A j \in 1 .. Len(v) : v[j] <= v[k + 1]
        /\ \A j \in 1 .. k : v[j] < v[k + 1]

\* ------------------------------------- wavenet_vocoder.wavenet (the network)
\* The parameters as the network uses them: one weight.
Weight(p) == 1 + (p % 2)

\* upsample_net: every conditioning frame repeated upsample_scales times.
upsample_net(s, r) == [i \in 1 .. Len(s) * r |-> s[((i - 1) \div r) + 1]]

\* The dilation of block b: doubling from 1 within the stack.
Dilation(b) == 2 ^ (b - 1)

\* The length of block b's input buffer: kw + (kw - 1) * (dilation - 1).
BufferLen(b) == kernel_size + (kernel_size - 1) * (Dilation(b) - 1)

\* first_conv: a 1x1 convolution of the scalar or one-hot input.
first_conv(p, scalar, x) ==
    IF scalar THEN Clamp(Weight(p) * x)
    ELSE Clamp(Weight(p) * SumSeq([i \in 1 .. Len(x) |-> (i - 1) * x[i]]))

\* clear_buffer: every block's input_buffer back to None.
clear_buffer == [b \in Blocks |-> <<>>]

\* One block's incremental_forward: create the buffer zero-filled when it is
\* None, shift it left by one and append the input, convolve the taps that
\* lie one dilation apart, add the conditioning frame, gate; the result is
\* the residual output and the skip contribution.
BlockStep(p, b, buf, x, ct) ==
    LET n == BufferLen(b)
        buf0 == IF buf = <<>> THEN [i \in 1 .. n |-> 0] ELSE buf
        buf1 == Append(Tail(buf0), x)
        taps == [i \in 1 .. kernel_size |-> buf1[1 + (i - 1) * Dilation(b)]]
        h == Clamp(Weight(p) * SumSeq(taps) + ct)
    IN [buffer |-> buf1, x |-> Clamp(x + h), skip |-> h]

\* for f in conv_layers: x, h = f.incremental_forward(x, ct, None); skips += h
RECURSIVE ConvLayers(_, _, _, _, _, _)
ConvLayers(p, b, bufs, x, ct, skips) ==
    IF b > layers THEN [buffers |-> bufs, skips |-> skips]
    ELSE LET r == BlockStep(p, b, bufs[b], x, ct)
         IN ConvLayers(p, b + 1, [bufs EXCEPT ![b] = r.buffer], r.x, ct,
                       skips + r.skip)

\* The body of generate's loop up to the sampler: first_conv, the blocks,
\* the scaled skip sum and the last (pointwise) layers.
IncrementalForward(p, scalar, bufs, x, ct) ==
    LET r == ConvLayers(p, 1, bufs, first_conv(p, scalar, x), ct, 0)
    IN [buffers |-> r.buffers, logits |-> Clamp(r.skips)]

\* The samplers, each a function of the distribution parameters and of what
\* the random source yields.
sample_from_discretized_mix_logistic(logits, d) == Clamp(logits + d)
sample_from_mix_gaussian(logits, d) == Clamp(logits - d)
OneHotCategorical(logits, d) == one_hot((logits + d) % quantize_channels)

\* ------------------------------------------------------------- generate
\* x = torch.zeros(batch_size, 1, 1) or torch.zeros(batch_size, 1, out_channels)
ZeroSeed(scalar) ==
    IF scalar THEN 0 ELSE [i \in 1 .. quantize_channels |-> 0]

\* get_x_from_dist returning history[0] in place of history[-1].
get_x_from_dist_first(scalar, distrib, logits, history, d) ==
    LET x == IF scalar
             THEN IF distrib = "Logistic"
                  THEN sample_from_discretized_mix_logistic(logits, d)
                  ELSE sample_from_mix_gaussian(logits, d)
             ELSE OneHotCategorical(logits, d)
        h == Append(history, x)
    IN IF scalar /\ distrib \notin {"Logistic", "Normal"}
       THEN [raised |-> TRUE, x |-> 0, history |-> history]
       ELSE [raised |-> FALSE, x |-> h[1], history |-> h]

\* get_x_from_dist: the sample, appended to history; history[-1] and history
\* are returned.  raised marks the AssertionError of an unknown distribution.
get_x_from_dist(scalar, distrib, logits, history, d) ==
    LET x == IF scalar
             THEN IF distrib = "Logistic"
                  THEN sample_from_discretized_mix_logistic(logits, d)
                  ELSE sample_from_mix_gaussian(logits, d)
             ELSE OneHotCategorical(logits, d)
        h == Append(history, x)
    IN IF scalar /\ distrib \notin {"Logistic", "Normal"}
       THEN [raised |-> TRUE, x |-> 0, history |-> history]
       ELSE [raised |-> FALSE, x |-> h[Len(h)], history |-> h]

\* seq_len one past the conditioning when not training.
SeqLenOffByOne(training, spectrograms) ==
    IF training THEN TrainSeqLen ELSE Len(spectrograms) + 1

\* seq_len = 22050 if training else spectrograms.size(-1)
SeqLen(training, spectrograms) ==
    IF training THEN TrainSeqLen ELSE Len(spectrograms)

\* The inverse label transform of one sample after the loop.
InverseLabel(it, v) ==
    IF it = "mulaw-quantize" THEN expand(argmax(v))
    ELSE IF it = "mulaw" THEN expand(float_2_label(v, quantize_channels))
    ELSE v

\* torch.stack(output).transpose(0, 1), the inverse label transform, flatten().
Waveform(it, output) == [i \in 1 .. Len(output) |-> InverseLabel(it, output[i])]

Ended(f) == f.pc \in {"returned", "raised"}

\* generate without the clear_buffer() call that precedes the loop.
ClearBufferAtStartMissing == buffers

\* self.model.module.clear_buffer() at the start of generate.
ClearBufferAtStart == clear_buffer

\* self.model.module.clear_buffer() at the end of generate.
ClearBufferAtEnd == clear_buffer

\* generate up to the loop: eval(), clear_buffer(), upsample, seq_len, the
\* zero seed, the empty history.
GenBegin(c, s, training) ==
    /\ phase = "ready"
    /\ call[c].pc = "idle"
    /\ mode' = "eval"
    /\ buffers' = ClearBufferAtStart
    /\ LET up == upsample_net(s, upsample_scales)
       IN call' = [call EXCEPT ![c] =
              [IdleFrame EXCEPT !.pc = "loop", !.op = "generate",
                  !.spectrograms = up, !.training = training,
                  !.seq_len = SeqLen(training, up),
                  !.x = ZeroSeed(scalar_input), !.params0 = params,
                  !.opt0 = opt_state, !.dirty = (buffers # EmptyBuffers)]]
    /\ UNCHANGED <<phase, config, scalar_input, criterion, params, grads,
                   opt_state, threads>>

\* One iteration of the loop, t < seq_len.  spectrograms[:, t, :] raises
\* IndexError when t is past the end; get_x_from_dist raises after the
\* blocks have updated their buffers.
GenStep(c, d) ==
    LET f == call[c] IN
    /\ f.pc = "loop"
    /\ f.t < f.seq_len
    /\ IF f.t >= Len(f.spectrograms)
       THEN /\ call' = [call EXCEPT ![c].pc = "raised", ![c].err = "IndexError"]
            /\ UNCHANGED buffers
       ELSE LET ct == f.spectrograms[f.t + 1]
                fw == IncrementalForward(params, scalar_input, buffers, f.x, ct)
                g == get_x_from_dist(scalar_input, output_distribution,
                                     fw.logits, f.output, d)
            IN /\ buffers' = fw.buffers
               /\ IF g.raised
                  THEN call' = [call EXCEPT ![c].pc = "raised",
                                   ![c].err = "AssertionError",
                                   ![c].fed = Append(f.fed, f.x)]
                  ELSE call' = [call EXCEPT ![c].x = g.x,
                                   ![c].output = g.history,
                                   ![c].fed = Append(f.fed, f.x),
                                   ![c].draws = Append(f.draws, d),
                                   ![c].t = f.t + 1]
    /\ UNCHANGED <<phase, config, scalar_input, criterion, params, grads,
                   opt_state, mode, threads>>

\* After the loop: stack, inverse label transform or the "Not supported input
\* type" RuntimeError, then clear_buffer(), train() and the return.
GenFinish(c) ==
    LET f == call[c] IN
    /\ f.pc = "loop"
    /\ f.t = f.seq_len
    /\ IF input_type \in {"mulaw", "mulaw-quantize", "raw"}
       THEN /\ call' = [call EXCEPT ![c].pc = "returned",
                           ![c].ret = Waveform(input_type, f.output)]
            /\ buffers' = ClearBufferAtEnd
            /\ mode' = "train"
       ELSE /\ call' = [call EXCEPT ![c].pc = "raised", ![c].err = "RuntimeError"]
            /\ UNCHANGED <<buffers, mode>>
    /\ UNCHANGED <<phase, config, scalar_input, criterion, params, grads,
                   opt_state, threads>>

\* ------------------------------------------------- loss and training
\* The network's parallel forward pass over the whole window: causal, one
\* output per input position, reading the conditioning frame of the position.
Forward(p, scalar, waveforms, c) ==
    [t \in 1 .. Len(waveforms) |->
        Clamp(first_conv(p, scalar, waveforms[t])
              + (IF t > 1 THEN first_conv(p, scalar, waveforms[t - 1]) ELSE 0)
              + c[t])]

\* The target left unshifted: waveforms[:, :-1].
ShiftTargetNone(waveforms) == SubSeq(waveforms, 1, Len(waveforms) - 1)

\* target = waveforms[:, 1:]
ShiftTarget(waveforms) == SubSeq(waveforms, 2, Len(waveforms))

\* output[:, :, :-1]
DropLast(output) == SubSeq(output, 1, Len(output) - 1)

\* The encoding loss applies to the network input, per sample.
EncodeInput(it, a) ==
    IF it = "mulaw" THEN label_2_float(compand(a), quantize_channels)
    ELSE IF it = "mulaw-quantize" THEN one_hot(compand(a))
    ELSE a

\* The encoding loss applies to the target, per sample.
EncodeTarget(it, a) ==
    IF it = "mulaw" THEN label_2_float(compand(a), quantize_channels)
    ELSE IF it = "mulaw-quantize" THEN compand(a)
    ELSE a

\* The criteria, each over the pairs (output position, target position).
CrossEntropyLoss(output, target) ==
    SumSeq([i \in 1 .. Len(target) |->
               IF output[i] % quantize_channels = target[i] THEN 0 ELSE 1])
MixtureLoss(output, target) ==
    SumSeq([i \in 1 .. Len(target) |-> Abs(output[i] - target[i])])
Criterion(crit, output, target) ==
    IF crit = "CrossEntropyLoss" THEN CrossEntropyLoss(output, target)
    ELSE MixtureLoss(output, target)

\* WaveNet.loss: raised marks the "Not supported input type" RuntimeError,
\* which comes before the forward pass.
loss(it, crit, p, scalar, c, waveforms) ==
    LET target0 == ShiftTarget(waveforms)
        w == [i \in 1 .. Len(waveforms) |-> EncodeInput(it, waveforms[i])]
        target == [i \in 1 .. Len(target0) |-> EncodeTarget(it, target0[i])]
        output == Forward(p, scalar, w, c)
        scored == [output |-> DropLast(output), target |-> target,
                   criterion |-> crit]
    IN IF it \notin {"mulaw", "mulaw-quantize", "raw"}
       THEN [raised |-> TRUE, waveforms |-> <<>>, scored |-> <<>>, loss |-> 0]
       ELSE [raised |-> FALSE, waveforms |-> w, scored |-> scored,
             loss |-> Criterion(crit, scored.output, scored.target)]

\* What train_step returns beside the loss.
TrainMetrics(l) == EmptyDict

\* validation_losses returning no named entry.
ValidationMetricsEmpty(l) == [k \in {} |-> l]

\* What validation_losses returns.
ValidationMetrics(l) == [k \in {"nll_loss"} |-> l]

\* validation_losses going on to the backward pass like train_step.
AfterLossAlwaysTrain(op, l) ==
    IF op \in {"train_step", "validation_losses"}
    THEN [pc |-> "zero_grad", ret |-> <<>>]
    ELSE [pc |-> "returned", ret |-> <<l>>]

\* The statement that follows self.loss(...) in each caller.
AfterLoss(op, l) ==
    IF op = "train_step" THEN [pc |-> "zero_grad", ret |-> <<>>]
    ELSE IF op = "validation_losses"
    THEN [pc |-> "returned", ret |-> ValidationMetrics(l)]
    ELSE [pc |-> "returned", ret |-> <<l>>]

\* loss, validation_losses, or train_step up to its call of self.loss, on a
\* batch (s, waveforms) whose conditioning covers the window.
LossCall(c, op, s, waveforms) ==
    /\ phase = "ready"
    /\ call[c].pc = "idle"
    /\ op = "train_step" => opt_state < MaxOptSteps
    /\ Len(upsample_net(s, upsample_scales)) >= Len(waveforms)
    /\ LET r == loss(input_type, criterion, params, scalar_input,
                     upsample_net(s, upsample_scales), waveforms)
           a == AfterLoss(op, r.loss)
       IN call' = [call EXCEPT ![c] =
              IF r.raised
              THEN [IdleFrame EXCEPT !.pc = "raised", !.op = op,
                       !.err = "RuntimeError", !.params0 = params,
                       !.opt0 = opt_state]
              ELSE [IdleFrame EXCEPT !.pc = a.pc, !.op = op, !.ret = a.ret,
                       !.spectrograms = upsample_net(s, upsample_scales),
                       !.waveforms = r.waveforms, !.raw = waveforms,
                       !.scored = r.scored,
                       !.loss = r.loss, !.forwarded = TRUE,
                       !.trace = <<"loss">>, !.params0 = params,
                       !.opt0 = opt_state]]
    /\ UNCHANGED <<phase, config, scalar_input, criterion, params, grads,
                   opt_state, mode, buffers, threads>>

\* self.optimizer.zero_grad()
ZeroGrad(c) ==
    /\ call[c].pc = "zero_grad"
    /\ grads' = <<0>>
    /\ call' = [call EXCEPT ![c].pc = "backward",
                   ![c].trace = Append(call[c].trace, "zero_grad")]
    /\ UNCHANGED <<phase, config, scalar_input, criterion, params, opt_state,
                   mode, buffers, threads>>

\* The gradient of a loss value.
Gradient(l) == IF l % 2 = 0 THEN 1 ELSE -1

\* loss.backward(): the gradient is accumulated into .grad.
Backward(c) ==
    /\ call[c].pc = "backward"
    /\ grads' = <<grads[1] + Gradient(call[c].loss)>>
    /\ call' = [call EXCEPT ![c].pc = "step",
                   ![c].trace = Append(call[c].trace, "backward")]
    /\ UNCHANGED <<phase, config, scalar_input, criterion, params, opt_state,
                   mode, buffers, threads>>

\* One Adam step on the parameters.
OptimizerStep(p, g) == p - g

\* self.optimizer.step() and return loss, {}
OptStep(c) ==
    /\ call[c].pc = "step"
    /\ params' = OptimizerStep(params, grads[1])
    /\ opt_state' = opt_state + 1
    /\ call' = [call EXCEPT ![c].pc = "returned",
                   ![c].trace = Append(call[c].trace, "step"),
                   ![c].ret = <<call[c].loss, TrainMetrics(call[c].loss)>>]
    /\ UNCHANGED <<phase, config, scalar_input, criterion, grads, mode,
                   buffers, threads>>

\* The call is over: control is back in the caller, the frame is gone.
Exit(c) ==
    /\ Ended(call[c])
    /\ call' = [call EXCEPT ![c] = IdleFrame]
    /\ UNCHANGED <<phase, config, scalar_input, criterion, params, grads,
                   opt_state, mode, buffers, threads>>

\* The batches the training loop hands over in the driver's specification.
TrainWindows == Windows({-1, 2}, 2)
LossOps == {"loss", "train_step", "validation_losses"}

Next ==
    \/ ConstructOk
    \/ ConstructRaise
    \/ ConstructAssert
    \/ \E c \in threads :
           /\ call[c].pc = "idle"
           /\ \E s \in Conds(MaxL), training \in BOOLEAN :
                  GenBegin(c, s, training)
    \/ \E c \in threads, d \in Draws : GenStep(c, d)
    \/ \E c \in threads : GenFinish(c)
    \/ \E c \in threads :
           /\ call[c].pc = "idle"
           /\ \E op \in LossOps, s \in Conds(MaxL), w \in TrainWindows :
                  LossCall(c, op, s, w)
    \/ \E c \in threads : ZeroGrad(c)
    \/ \E c \in threads : Backward(c)
    \/ \E c \in threads : OptStep(c)
    \/ \E c \in threads : Exit(c)

Spec == Init /\ [][Next]_vars

\* Two threads calling generate on the one instance, their steps interleaved.
InitConc == InitWith({1, 2})

NextConc ==
    \/ ConstructOk
    \/ ConstructRaise
    \/ ConstructAssert
    \/ \E c \in threads :
           /\ call[c].pc = "idle"
           /\ \E s \in Conds(1) : GenBegin(c, s, FALSE)
    \/ \E c \in threads, d \in Draws : GenStep(c, d)
    \/ \E c \in threads : GenFinish(c)
    \/ \E c \in threads : Exit(c)

SpecConc == InitConc /\ [][NextConc]_vars

\* loss on every waveform window of at most MaxWin samples.
NextLoss ==
    \/ ConstructOk
    \/ ConstructRaise
    \/ ConstructAssert
    \/ \E c \in threads :
           /\ call[c].pc = "idle"
           /\ \E s \in Conds(MaxL), w \in Windows(Amplitudes, MaxWin) :
                  LossCall(c, "loss", s, w)
    \/ \E c \in threads : Exit(c)

SpecLoss == Init /\ [][NextLoss]_vars

\* =================================================================== claims
Generating(f) == f.op = "generate"

\* The history a generate call builds when it starts from empty buffers: a
\* function of the parameters, the conditioning and the random draws alone.
RECURSIVE FreshRun(_, _, _, _, _, _, _, _, _)
FreshRun(p, scalar, distrib, spectrograms, draws, t, bufs, x, history) ==
    IF t > Len(draws) THEN history
    ELSE LET fw == IncrementalForward(p, scalar, bufs, x, spectrograms[t])
             g == get_x_from_dist(scalar, distrib, fw.logits, history, draws[t])
         IN FreshRun(p, scalar, distrib, spectrograms, draws, t + 1,
                     fw.buffers, g.x, g.history)

\* C1 (as claimed): the buffers are empty before a generate call's first
\* timestep and whenever a generate call has ended, by return or by an error.
CachesGenerationScoped ==
    \A c \in threads :
        LET f == call[c] IN
        Generating(f) /\ ((f.pc = "loop" /\ f.t = 0) \/ Ended(f))
            => buffers = EmptyBuffers

\* C2 (as claimed): with either value of the training flag, generate runs
\* exactly T steps, T the length of the upsampled conditioning, never reads
\* a frame past its end, and returns T samples.
GenerateRunsT ==
    \A c \in threads :
        LET f == call[c] IN
        Generating(f) =>
            /\ f.seq_len = Len(f.spectrograms)
            /\ f.err # "IndexError"
            /\ f.pc = "returned" => Len(f.ret) = Len(f.spectrograms)

\* C2 (amended): without the training flag generate runs exactly T steps,
\* reads only frames that exist and returns T samples; with it the step
\* count is the fixed TrainSeqLen: the call returns TrainSeqLen samples when
\* T >= TrainSeqLen and fails on the read of frame T, after T steps, when
\* T < TrainSeqLen.
GenerateRunsSeqLen ==
    \A c \in threads :
        LET f == call[c]
            T == Len(f.spectrograms)
        IN Generating(f) =>
            /\ Len(f.output) = f.t
            /\ f.t <= T
            /\ f.t <= f.seq_len
            /\ ~f.training =>
                  /\ f.seq_len = T
                  /\ f.err # "IndexError"
                  /\ f.pc = "returned" => f.t = T /\ Len(f.ret) = T
            /\ f.training =>
                  /\ f.seq_len = TrainSeqLen
                  /\ f.pc = "returned" =>
                        T >= TrainSeqLen /\ Len(f.ret) = TrainSeqLen
                  /\ f.err = "IndexError" => T < TrainSeqLen /\ f.t = T

\* C2 witness: a call without the training flag returned the 4 samples of a
\* conditioning of 2 frames upsampled by 2.
GenerateRunsSeqLenWitness ==
    \E c \in threads :
        /\ Generating(call[c]) /\ call[c].pc = "returned"
        /\ ~call[c].training
        /\ upsample_scales = 2
        /\ Len(call[c].ret) = 4

\* C3 (as claimed): while a generate call is in its loop and takes no step,
\* nothing changes the buffers it uses: no other call's step or reset
\* overwrites or clears them.
CallsHaveOwnCaches ==
    [][\A c \in threads :
          (call[c].pc = "loop" /\ call'[c] = call[c]) => buffers' = buffers]_vars

\* C4 (as claimed): with an output_distribution outside Logistic and Normal,
\* whatever the input_type, construction does not complete, so no call
\* starts and no buffer is touched; and no call raises the unknown
\* distribution error from inside the loop.
BadDistributionRejected ==
    /\ output_distribution \notin SupportedDistributions =>
          /\ phase # "ready"
          /\ buffers = EmptyBuffers
          /\ \A c \in threads : call[c] = IdleFrame
    /\ \A c \in threads : call[c].err # "AssertionError"

\* C4 (amended): with an output_distribution outside Logistic and Normal and
\* an input_type other than "mulaw-quantize", construction does not
\* complete, so no call starts and no buffer is touched; with "mulaw-quantize"
\* the value is not consulted: the criterion is the cross-entropy and generate
\* raises no configuration error; and in no configuration is the unknown
\* distribution error raised from inside the loop.
BadDistributionRejectedUnlessQuantized ==
    /\ (output_distribution \notin SupportedDistributions
          /\ input_type # "mulaw-quantize") =>
          /\ phase # "ready"
          /\ buffers = EmptyBuffers
          /\ \A c \in threads : call[c] = IdleFrame
    /\ (output_distribution \notin SupportedDistributions
          /\ input_type = "mulaw-quantize" /\ phase # "new") =>
          /\ phase = "ready"
          /\ criterion = "CrossEntropyLoss"
          /\ \A c \in threads :
                Generating(call[c]) =>
                    call[c].err \notin {"AssertionError", "RuntimeError"}
    /\ \A c \in threads : call[c].err # "AssertionError"

\* C4 witness: __init__ has raised for a raw-input configuration with an
\* unknown output distribution.
BadDistributionRejectedWitness ==
    /\ phase = "config_error"
    /\ input_type = "raw"
    /\ output_distribution \notin SupportedDistributions

\* C5 (as claimed): with an input_type outside the three supported ones, no
\* call runs a forward pass or a timestep or touches a buffer.
BadInputTypeRejectedEarly ==
    input_type \notin SupportedInputTypes =>
        /\ buffers = EmptyBuffers
        /\ \A c \in threads :
              /\ ~call[c].forwarded
              /\ call[c].t = 0
              /\ call[c].fed = <<>>

\* C6: the waveform a generate call returns, and the history at every point
\* of its loop, is the one a run from empty buffers yields for the call's
\* parameters, conditioning and random draws: nothing else the instance went
\* through before the call has a part in it.
GenerateDeterministic ==
    \A c \in threads :
        LET f == call[c]
            h == FreshRun(f.params0, scalar_input, output_distribution,
                          f.spectrograms, f.draws, 1, EmptyBuffers,
                          ZeroSeed(scalar_input), <<>>)
        IN Generating(f) =>
            /\ f.pc \in {"loop", "returned"} => f.output = h
            /\ f.pc = "returned" => f.ret = Waveform(input_type, h)

\* C6 witness: a generate call that found the buffers non-empty (left by a
\* call that ended in an error) has returned a waveform of 2 or more samples.
GenerateDeterministicWitness ==
    \E c \in threads :
        /\ Generating(call[c]) /\ call[c].pc = "returned"
        /\ call[c].dirty
        /\ Len(call[c].ret) >= 2

\* Per frame: what a call has done to the parameters so far.
ParamsFrame ==
    \A c \in threads :
        LET f == call[c] IN
        f.pc # "idle" =>
            IF f.op = "train_step" /\ f.pc = "returned"
            THEN /\ f.trace = <<"loss", "zero_grad", "backward", "step">>
                 /\ opt_state = f.opt0 + 1
                 /\ params = OptimizerStep(f.params0, Gradient(f.loss))
            ELSE /\ params = f.params0
                 /\ opt_state = f.opt0
                 /\ f.trace \in {<<>>, <<"loss">>, <<"loss", "zero_grad">>,
                                 <<"loss", "zero_grad", "backward">>}

\* Per step: which step may change the parameters or the optimizer state.
ParamsStep ==
    (params' # params \/ opt_state' # opt_state) =>
        \E c \in threads :
            /\ call[c].op = "train_step"
            /\ call[c].trace = <<"loss", "zero_grad", "backward">>
            /\ call'[c].pc = "returned"
            /\ opt_state' = opt_state + 1

\* C7: the parameters and the optimizer state change only in the optimizer
\* step of a train_step call, which comes once, after the loss, zero_grad and
\* backward in that order; every other call, however it ends, and train_step
\* up to that step, leaves them as the call found them.
ParamsChangeOnlyInTrainStep == []ParamsFrame /\ [][ParamsStep]_vars

\* C7 witness: a second train_step has returned with changed parameters.
ParamsChangeOnlyInTrainStepWitness ==
    \E c \in threads :
        /\ call[c].op = "train_step" /\ call[c].pc = "returned"
        /\ opt_state = 2
        /\ params # call[c].params0

\* C8 (as claimed): the mapping train_step returns and the one
\* validation_losses returns both hold a negative log-likelihood entry.
TrainingReturnsNll ==
    \A c \in threads :
        LET f == call[c] IN
        f.pc = "returned" =>
            /\ f.op = "train_step" => "nll_loss" \in DOMAIN f.ret[2]
            /\ f.op = "validation_losses" => "nll_loss" \in DOMAIN f.ret

\* C8 (amended): train_step returns the scalar loss with an empty mapping;
\* validation_losses returns a mapping whose one entry, nll_loss, is the loss.
TrainingReturnsLossOnly ==
    \A c \in threads :
        LET f == call[c] IN
        f.pc = "returned" =>
            /\ f.op = "train_step" =>
                  /\ Len(f.ret) = 2
                  /\ f.ret[1] = f.loss
                  /\ DOMAIN f.ret[2] = {}
            /\ f.op = "validation_losses" =>
                  /\ DOMAIN f.ret = {"nll_loss"}
                  /\ f.ret["nll_loss"] = f.loss

\* C8 witness: a validation_losses call has returned a positive loss.
TrainingReturnsLossOnlyWitness ==
    \E c \in threads :
        /\ call[c].op = "validation_losses" /\ call[c].pc = "returned"
        /\ call[c].loss > 0

\* Per frame: what each step was fed and what the history holds.
HistoryInOrder ==
    \A c \in threads :
        LET f == call[c] IN
        Generating(f) =>
            /\ Len(f.output) = f.t
            /\ Len(f.draws) = f.t
            /\ Len(f.fed) \in {f.t, f.t + 1}
            /\ Len(f.fed) = f.t + 1 => f.err = "AssertionError"
            /\ \A i \in 1 .. Len(f.fed) :
                  f.fed[i] = IF i = 1 THEN ZeroSeed(scalar_input)
                             ELSE f.output[i - 1]
            /\ f.pc = "loop" =>
                  f.x = IF f.t = 0 THEN ZeroSeed(scalar_input)
                        ELSE f.output[f.t]
            /\ f.pc = "returned" =>
                  /\ Len(f.ret) = Len(f.output)
                  /\ \A i \in 1 .. Len(f.ret) :
                        f.ret[i] =
                            IF input_type = "raw" THEN f.output[i]
                            ELSE IF input_type = "mulaw"
                            THEN expand(float_2_label(f.output[i],
                                                      quantize_channels))
                            ELSE expand(argmax(f.output[i]))

\* Per step: a step of a call in its loop appends at most one sample.
HistoryAppendOnly ==
    \A c \in threads :
        (call[c].pc = "loop" /\ call'[c] # call[c]) =>
            /\ call'[c].t \in {call[c].t, call[c].t + 1}
            /\ Len(call'[c].output) = Len(call[c].output)
                                      + (call'[c].t - call[c].t)
            /\ SubSeq(call'[c].output, 1, Len(call[c].output)) = call[c].output

\* C9: in generate the steps run in order; step 0 is fed the all-zero seed,
\* step t + 1 the sample step t appended; after k steps the history holds
\* the k samples in order; a step appends one sample and leaves the earlier
\* ones alone; the returned waveform holds, position for position, the
\* history's samples (after the inverse label transform of the input_type).
HistoryOrdered == []HistoryInOrder /\ [][HistoryAppendOnly]_vars

\* C9 witness: a call has completed 3 steps and is still in its loop.
HistoryOrderedWitness ==
    \E c \in threads :
        /\ Generating(call[c]) /\ call[c].pc = "loop"
        /\ call[c].t = 3
        /\ call[c].output[3] # call[c].output[1]

\* C10: loss on a window of n samples scores n - 1 pairs: the network output
\* at position t against the sample at position t + 1, encoded as the
\* network input at that position is (the label the one-hot input stands
\* for, for "mulaw-quantize"); the output at the last position is left out;
\* the criterion is cross-entropy for "mulaw-quantize" and the mixture
\* negative log-likelihood of the configured family otherwise.
LossShiftsTarget ==
    \A c \in threads :
        LET f == call[c]
            n == Len(f.raw)
            out == Forward(f.params0, scalar_input, f.waveforms, f.spectrograms)
        IN (f.op = "loss" /\ f.pc = "returned") =>
            /\ Len(f.waveforms) = n
            /\ Len(f.scored.output) = n - 1
            /\ Len(f.scored.target) = n - 1
            /\ \A t \in 1 .. n - 1 :
                  /\ f.scored.output[t] = out[t]
                  /\ IF input_type = "mulaw-quantize"
                     THEN /\ f.scored.target[t] = compand(f.raw[t + 1])
                          /\ f.waveforms[t + 1] = one_hot(f.scored.target[t])
                     ELSE /\ f.scored.target[t] = f.waveforms[t + 1]
                          /\ f.scored.target[t] =
                                IF input_type = "mulaw"
                                THEN label_2_float(compand(f.raw[t + 1]),
                                                   quantize_channels)
                                ELSE f.raw[t + 1]
            /\ f.scored.criterion =
                  IF input_type = "mulaw-quantize" THEN "CrossEntropyLoss"
                  ELSE IF output_distribution = "Logistic"
                  THEN "DiscretizedMixturelogisticLoss"
                  ELSE "MixtureGaussianLoss"
            /\ f.loss = Criterion(f.scored.criterion, f.scored.output,
                                  f.scored.target)

\* C10 witness: loss has returned for a "mulaw-quantize" window of 3 samples
\* whose last two samples encode to different labels.
LossShiftsTargetWitness ==
    \E c \in threads :
        /\ call[c].op = "loss" /\ call[c].pc = "returned"
        /\ input_type = "mulaw-quantize"
        /\ Len(call[c].raw) = 3
        /\ call[c].scored.target[1] # call[c].scored.target[2]

====
